---- MODULE Spec2Model ----
(***************************************************************************)
(* State-machine model of src/src/pathtrace.cu: the host-side life cycle   *)
(* (pathtraceInit / pathtraceFree / InitDataContainer), one pathtrace      *)
(* iteration split at its device-wide synchronisation points (generate,    *)
(* intersect, compact, scatter, compact, finalGather, present), and the    *)
(* stackless BVH walk of one ray.                                          *)
(*                                                                         *)
(* Floating-point colours are vectors of three components, each a natural  *)
(* number or NaN; the arithmetic keeps the IEEE rule that NaN absorbs.     *)
(* Geometry that lives outside this file (ray/shape tests, BSDF samplers)  *)
(* enters as inputs chosen with \E.                                        *)
(***************************************************************************)
EXTENDS Integers, Sequences, FiniteSets, TLC

(***************************** bounds **************************************)
\* cam.resolution.x of the modelled camera (resolution.y is 1)
NumPixels == 2
\* number of pathtraceInit calls explored
MaxInits == 1
\* number of pathtrace calls explored
MaxRenders == 1

(************************* program constants *******************************)
MAX_ITER == 8
USE_BVH == 1
SORT_BY_MATERIAL_TYPE == 0
ERRORCHECK == 1

\* MaterialType tags, in the order the data model lists them
diffuse == 0
emitting == 1
frenselSpecular == 2
microfacet == 3

(************************** float arithmetic *******************************)
\* the one non-number a float component can hold
NaN == -1

IsNanF(a) == a = NaN
MulF(a, b) == IF IsNanF(a) \/ IsNanF(b) THEN NaN ELSE a * b
AddF(a, b) == IF IsNanF(a) \/ IsNanF(b) THEN NaN ELSE a + b
DivF(a, b) == IF IsNanF(a) \/ IsNanF(b) \/ b = 0 THEN NaN ELSE a \div b

Vec3Mul(u, v) == <<MulF(u[1], v[1]), MulF(u[2], v[2]), MulF(u[3], v[3])>>
Vec3Add(u, v) == <<AddF(u[1], v[1]), AddF(u[2], v[2]), AddF(u[3], v[3])>>
Vec3Scale(u, s) == <<MulF(u[1], s), MulF(u[2], s), MulF(u[3], s)>>
Vec3Div(u, s) == <<DivF(u[1], s), DivF(u[2], s), DivF(u[3], s)>>

\* util_math_is_nan: some component differs from itself
util_math_is_nan(v) == IsNanF(v[1]) \/ IsNanF(v[2]) \/ IsNanF(v[3])

White == <<1, 1, 1>>
Black == <<0, 0, 0>>

(****************************** scene **************************************)
Lanes == 0 .. (NumPixels - 1)
Resolution == [x |-> NumPixels, y |-> 1]
pixelcount == Resolution.x * Resolution.y

\* the material list uploaded to dev_materials, indexed by material id
SceneMaterials ==
    (0 :> [type |-> diffuse, color |-> <<1, 0, 1>>, emittance |-> 0])
 @@ (1 :> [type |-> emitting, color |-> <<1, 1, 0>>, emittance |-> 5])
MaterialIds == DOMAIN SceneMaterials

\* the scenes pathtraceInit / pathtraceFree are called with: the number of
\* mesh triangles decides whether the triangle and vertex arrays exist
Scenes == {[triangles |-> 0, traceDepth |-> 2], [triangles |-> 2, traceDepth |-> 2]}
NoScene == [triangles |-> -1, traceDepth |-> -1]

\* the iteration indices a caller passes to pathtrace
IterIndices == {1, 2}

\* the values the build switches USE_BVH and SORT_BY_MATERIAL_TYPE can take
Builds == [useBVH : {0, 1}, sortByMat : {0, 1}]
ShippedBuild == [useBVH |-> USE_BVH, sortByMat |-> SORT_BY_MATERIAL_TYPE]

\* outcomes of the nearest-hit search of one ray
NoHit == [t |-> -1, materialId |-> -1]
HitDistances == {7}
HitChoices ==
    {NoHit} \cup {[t |-> d, materialId |-> m] : d \in HitDistances, m \in MaterialIds}

\* outcomes of one BSDF sample: value, |cos| and probability density
Samples ==
    { [bxdf |-> <<0, 0, 0>>, abscos |-> 1, pdf |-> 0],
      [bxdf |-> <<2, 0, 2>>, abscos |-> 1, pdf |-> 2],
      [bxdf |-> <<2, NaN, 2>>, abscos |-> 1, pdf |-> 2] }

(************************** device memory **********************************)
BufNames ==
    { "dev_image", "dev_paths1", "dev_paths2", "dev_objs", "dev_triangles",
      "dev_vertices", "dev_primitives", "dev_bvhArray", "dev_materials",
      "dev_intersections1", "dev_intersections2" }
\* a device address: the pointer variable it was first stored in and the
\* number of the pathtraceInit call that allocated it
NullPtr == <<"NULL", 0>>

\* contents of memory that was allocated and never written
PoisonPath == [pixelIndex |-> -1, color |-> <<NaN, NaN, NaN>>, remainingBounces |-> -1]
PoisonIsect == [t |-> -1, materialId |-> -1, type |-> -1]
ZeroIsect == [t |-> 0, materialId |-> 0, type |-> 0]
PoisonInt == -1

VARIABLES
    pc,            \* position of the host thread
    lastCall,      \* the entry point the host called last
    hst_scene,     \* static Scene* hst_scene
    guiData,       \* static GuiDataContainer* guiData (FALSE = NULL)
    TracedDepth,   \* guiData->TracedDepth
    ptr,           \* the static dev_* pointers
    live,          \* device addresses currently allocated
    serial,        \* number of pathtraceInit calls so far
    renders,       \* number of pathtrace calls so far
    cudaErr,       \* the runtime's pending last error (TRUE = not cudaSuccess)
    image,         \* contents of the image buffer
    bufPaths,      \* contents of the two path buffers, by address
    bufIsect,      \* contents of the two intersection buffers, by address
    rayValid,      \* contents of rayValid
    rayIndex,      \* contents of rayIndex
    numRays,       \* local numRays of pathtrace
    depth,         \* local depth of pathtrace
    iter,          \* argument iter of pathtrace
    rng,           \* arguments of makeSeededRandomEngine in the last launch
    contrib,       \* history: values added to each pixel in this iteration
    ended,         \* history: how the path of each pixel ended in this iteration
    pbo,           \* the display buffer handed to pathtrace
    hostImage,     \* hst_scene->state.image
    build,         \* the values of the build switches
    objects,       \* the object list handed to one intersection thread
    primitives,    \* the primitive list handed to it
    bvhArray,      \* the flattened BVH handed to it
    rayIn,         \* what the thread's ray does to boxes and primitives
    wpc,           \* position of the intersection thread
    curr,          \* local curr of the walk
    state,         \* local state of the walk
    tmpIntersection, \* local tmpIntersection of the walk
    intersected,   \* local intersected of the walk
    tested,        \* history: the leaves whose primitives were tested, in order
    badReads,      \* history: node indices read outside the array
    triReads,      \* history: indices at which modelTriangles was read
    outValid,      \* rayValid[path_index] as written by the thread
    outIsect       \* intersections[path_index] as written by the thread

hostVars == <<pc, lastCall, hst_scene, guiData, TracedDepth, serial, renders, cudaErr, build>>
memVars == <<ptr, live, image, bufPaths, bufIsect>>
iterVars == <<rayValid, rayIndex, numRays, depth, iter, rng, contrib, ended, pbo, hostImage>>
walkVars == <<objects, primitives, bvhArray, rayIn, wpc, curr, state, tmpIntersection,
              intersected, tested, badReads, triReads, outValid, outIsect>>
vars == <<hostVars, memVars, iterVars, walkVars>>

(************************* makeSeededRandomEngine **************************)
RECURSIVE BitOr(_, _)
\* bitwise OR of two naturals
BitOr(a, b) ==
    IF a = 0 THEN b
    ELSE IF b = 0 THEN a
    ELSE (IF (a % 2 = 1) \/ (b % 2 = 1) THEN 1 ELSE 0) + 2 * BitOr(a \div 2, b \div 2)

\* (1 << 31) | (depth << 22) | iter as a 32-bit word: bit 31 is always set, so
\* the word is kept as its low 31 bits, where the shift keeps 9 bits of depth
SeedWord(it, dep) == BitOr((dep % 512) * 4194304, it)

\* the engine is built from utilhash(word) ^ utilhash(index); utilhash is
\* defined outside this file, so a seed is kept as the pair of its arguments
makeSeededRandomEngine(it, index, dep) == <<SeedWord(it, dep), index>>

(***************************** life cycle **********************************)
\* checkCUDAErrorFn: synchronise, read the last error, exit when it is set
checkCUDAError(err, next) == IF ERRORCHECK = 1 /\ err THEN "exited" ELSE next

\* the buffers pathtraceInit allocates, and pathtraceFree frees, for a scene
SceneBufs(scene) ==
    IF scene.triangles # 0 THEN BufNames
    ELSE BufNames \ {"dev_triangles", "dev_vertices"}

PathArray(v) == [l \in Lanes |-> v]

\* the intersection thread of the walk specification is not running
WalkIdle ==
    /\ objects = <<>>
    /\ primitives = <<>>
    /\ triReads = {}
    /\ bvhArray = <<>>
    /\ rayIn = <<>>
    /\ wpc = "off"
    /\ curr = 0
    /\ state = "fromParent"
    /\ tmpIntersection = <<>>
    /\ intersected = FALSE
    /\ tested = <<>>
    /\ badReads = {}
    /\ outValid = 0
    /\ outIsect = <<>>

InitHost ==
    /\ pc = "idle"
    /\ lastCall = "none"
    /\ hst_scene = NoScene
    /\ guiData = FALSE
    /\ TracedDepth = 0
    /\ ptr = [b \in BufNames |-> NullPtr]
    /\ live = {}
    /\ serial = 0
    /\ renders = 0
    /\ cudaErr = FALSE
    /\ image = <<>>
    /\ bufPaths = <<>>
    /\ bufIsect = <<>>
    /\ rayValid = <<>>
    /\ rayIndex = <<>>
    /\ numRays = 0
    /\ depth = 0
    /\ iter = 0
    /\ rng = <<>>
    /\ contrib = [p \in Lanes |-> <<>>]
    /\ ended = [p \in Lanes |-> "no"]
    /\ pbo = [p \in Lanes |-> <<0, 0, 0, 0>>]
    /\ hostImage = [p \in Lanes |-> Black]
    /\ build \in Builds

Init == InitHost /\ WalkIdle

InitDataContainer(imGuiData) ==
    /\ pc = "idle"
    /\ guiData' = imGuiData
    /\ lastCall' = "InitDataContainer"
    /\ UNCHANGED <<pc, hst_scene, TracedDepth, serial, renders, cudaErr, build>>
    /\ UNCHANGED <<memVars, iterVars>>
    /\ UNCHANGED walkVars

pathtraceInit(scene) ==
    /\ pc = "idle"
    /\ serial < MaxInits
    /\ serial' = serial + 1
    /\ lastCall' = "pathtraceInit"
    /\ hst_scene' = scene
    /\ ptr' = [b \in BufNames |->
                 IF b \in SceneBufs(scene) THEN <<b, serial + 1>> ELSE ptr[b]]
    /\ live' = live \cup {<<b, serial + 1>> : b \in SceneBufs(scene)}
    /\ image' = [p \in Lanes |-> Black]
    /\ bufPaths' = ("dev_paths1" :> PathArray(PoisonPath))
                @@ ("dev_paths2" :> PathArray(PoisonPath))
    /\ bufIsect' = ("dev_intersections1" :> PathArray(ZeroIsect))
                @@ ("dev_intersections2" :> PathArray(PoisonIsect))
    /\ pc' = checkCUDAError(cudaErr, "idle")
    /\ UNCHANGED <<guiData, TracedDepth, renders, cudaErr, build, iterVars>>
    /\ UNCHANGED walkVars

\* cudaFree of every pointer in names: NULL is a no-op, a live address is
\* released, any other address is an error
FreeError(names) == \E b \in names : ptr[b] # NullPtr /\ ptr[b] \notin live
FreeLive(names) == live \ {ptr[b] : b \in names}

pathtraceFree(scene) ==
    /\ pc = "idle"
    /\ lastCall' = "pathtraceFree"
    /\ live' = FreeLive(SceneBufs(scene))
    /\ cudaErr' = (cudaErr \/ FreeError(SceneBufs(scene)))
    /\ pc' = checkCUDAError(cudaErr', "idle")
    /\ UNCHANGED <<hst_scene, guiData, TracedDepth, serial, renders, build>>
    /\ UNCHANGED <<ptr, image, bufPaths, bufIsect, iterVars>>
    /\ UNCHANGED walkVars

(************************** buffer access **********************************)
Paths1 == bufPaths[ptr["dev_paths1"][1]]
Paths2 == bufPaths[ptr["dev_paths2"][1]]
Isect1 == bufIsect[ptr["dev_intersections1"][1]]
Isect2 == bufIsect[ptr["dev_intersections2"][1]]

\* the caller renders only between pathtraceInit and pathtraceFree
Initialised == \A b \in SceneBufs(hst_scene) : ptr[b] \in live

\* while (numRays && depth < MAX_ITER)
\* mutant: the loop guard tests the depth only
LoopGuard_DepthOnly(n, d) == d < MAX_ITER

LoopGuard(n, d) == n # 0 /\ d < MAX_ITER

(************************** generateRayFromCamera **************************)
PixelX(index) == index % Resolution.x
PixelY(index) == index \div Resolution.x

\* mutant: every camera ray is given the pixel index of the first pixel
generateRayFromCamera_SamePixel(index, traceDepth) ==
    [pixelIndex |-> 0, color |-> White, remainingBounces |-> traceDepth]

generateRayFromCamera(index, traceDepth) ==
    [pixelIndex |-> index, color |-> White, remainingBounces |-> traceDepth]

\* pathtrace up to the first evaluation of the loop guard
Generate(it) ==
    /\ pc = "idle"
    /\ hst_scene # NoScene
    /\ Initialised
    /\ renders < MaxRenders
    /\ renders' = renders + 1
    /\ lastCall' = "pathtrace"
    /\ iter' = it
    /\ bufPaths' = [bufPaths EXCEPT ![ptr["dev_paths1"][1]] =
                      [l \in Lanes |-> generateRayFromCamera(l, hst_scene.traceDepth)]]
    /\ rng' = [l \in Lanes |-> makeSeededRandomEngine(PixelX(l), PixelY(l), it)]
    /\ depth' = 0
    /\ numRays' = pixelcount
    /\ rayValid' = [l \in Lanes |-> PoisonInt]
    /\ rayIndex' = [l \in Lanes |-> PoisonInt]
    /\ contrib' = [p \in Lanes |-> <<>>]
    /\ ended' = [p \in Lanes |-> "no"]
    /\ pc' = checkCUDAError(cudaErr,
                IF LoopGuard(numRays', depth') THEN "intersect" ELSE "gather")
    /\ UNCHANGED <<hst_scene, guiData, TracedDepth, serial, cudaErr, build>>
    /\ UNCHANGED <<ptr, live, image, bufIsect, pbo, hostImage>>
    /\ UNCHANGED walkVars

(***************************** intersection ********************************)
\* the history of endings once the paths in the given lanes ended the given way
EndedAfter(lanes, how) ==
    [p \in Lanes |-> IF \E l \in lanes : Paths1[l].pixelIndex = p THEN how ELSE ended[p]]

\* what one lane of compute_intersection_bvh_stackless writes, given the
\* walk's nearest hit: the flag, and on a hit the record with its type tag
IntersectLaneBVH(hit, rec) ==
    IF hit # NoHit
    THEN [valid |-> 1,
          isect |-> [t |-> hit.t, materialId |-> hit.materialId,
                     type |-> SceneMaterials[hit.materialId].type]]
    ELSE [valid |-> 0, isect |-> rec]

\* what one lane of compute_intersection writes: the type tag is not set
IntersectLaneBrute(hit, rec) ==
    IF hit = NoHit
    THEN [valid |-> 0, isect |-> rec]
    ELSE [valid |-> 1,
          isect |-> [rec EXCEPT !.t = hit.t, !.materialId = hit.materialId]]

IntersectLane(hit, rec) ==
    IF build.useBVH = 1 THEN IntersectLaneBVH(hit, rec) ELSE IntersectLaneBrute(hit, rec)

ActiveLanes == 0 .. (numRays - 1)

\* one round's memset, intersection launch, error check and depth++
Intersect ==
    /\ pc = "intersect"
    /\ \E hit \in [ActiveLanes -> HitChoices] :
         LET out == [l \in ActiveLanes |-> IntersectLane(hit[l], ZeroIsect)]
         IN /\ bufIsect' = [bufIsect EXCEPT ![ptr["dev_intersections1"][1]] =
                  [l \in Lanes |-> IF l \in ActiveLanes THEN out[l].isect ELSE ZeroIsect]]
            /\ rayValid' = [l \in Lanes |->
                  IF l \in ActiveLanes THEN out[l].valid ELSE rayValid[l]]
            /\ ended' = EndedAfter({l \in ActiveLanes : hit[l] = NoHit}, "miss")
    /\ depth' = depth + 1
    /\ pc' = checkCUDAError(cudaErr, "compact1")
    /\ UNCHANGED <<lastCall, hst_scene, guiData, TracedDepth, serial, renders, cudaErr, build>>
    /\ UNCHANGED <<ptr, live, image, bufPaths>>
    /\ UNCHANGED <<rayIndex, numRays, iter, rng, contrib, pbo, hostImage>>
    /\ UNCHANGED walkVars

(****************************** compaction *********************************)
RECURSIVE SumBelow(_, _)
\* sum of flags[0 .. i-1]
SumBelow(flags, i) == IF i = 0 THEN 0 ELSE SumBelow(flags, i - 1) + flags[i - 1]

\* thrust::exclusive_scan over [0, n) into index
ExclusiveScan(flags, index, n) ==
    [l \in DOMAIN index |-> IF l < n THEN SumBelow(flags, l) ELSE index[l]]

\* thrust::scatter_if: in[i] goes to out[index[i]] for every i < n whose stencil is set
ScatterIf(in, out, index, stencil, n) ==
    [k \in DOMAIN out |->
        IF \E i \in 0 .. (n - 1) : stencil[i] # 0 /\ index[i] = k
        THEN in[CHOOSE i \in 0 .. (n - 1) : stencil[i] # 0 /\ index[i] = k]
        ELSE out[k]]

\* mat_comp
MatComp(a, b) == a.type < b.type

\* thrust::sort_by_key is not stable: any rearrangement of [0, n) after which
\* no later key compares less than an earlier one
SortOutcomes(keys, n, sortByMat) ==
    IF ~sortByMat THEN {[k \in 0 .. (n - 1) |-> k]}
    ELSE {pi \in Permutations(0 .. (n - 1)) :
             \A i, j \in 0 .. (n - 1) : i < j => ~MatComp(keys[pi[j]], keys[pi[i]])}

Permute(arr, pi, n) == [k \in DOMAIN arr |-> IF k < n THEN arr[pi[k]] ELSE arr[k]]

\* mutant: the count without the last flag
NextNumRays_ScanOnly(flags, index, n) == index[n - 1]

\* nextNumRays: the scan's last value plus the last flag
NextNumRays(flags, index, n) == index[n - 1] + flags[n - 1]

\* mutant: the intersection records are not compacted with their paths
compact_rays_PathsOnly(flags, index, n, pi) ==
    LET idx == ExclusiveScan(flags, index, n)
        p2 == ScatterIf(Paths1, Paths2, idx, flags, n)
    IN [rayIndex |-> idx, next |-> idx[n - 1] + flags[n - 1],
        paths2 |-> Permute(p2, pi, idx[n - 1] + flags[n - 1]), isect2 |-> Isect2]

\* compact_rays up to the swap: the new contents of rayIndex and of the
\* second buffer pair, and the returned count
compact_rays(flags, index, n, pi) ==
    LET idx == ExclusiveScan(flags, index, n)
        next == NextNumRays(flags, idx, n)
        p2 == ScatterIf(Paths1, Paths2, idx, flags, n)
        i2 == ScatterIf(Isect1, Isect2, idx, flags, n)
    IN [rayIndex |-> idx, next |-> next,
        paths2 |-> Permute(p2, pi, next), isect2 |-> Permute(i2, pi, next)]

\* the keys thrust::sort_by_key sees
CompactedKeys(flags, index, n) ==
    ScatterIf(Isect1, Isect2, ExclusiveScan(flags, index, n), flags, n)

\* mutant: compact_rays returns without exchanging the buffer pointers
SwapBuffers_NoSwap(p) == p

\* std::swap(dev_paths1, dev_paths2); std::swap(dev_intersections1, dev_intersections2)
SwapBuffers(p) ==
    [p EXCEPT !["dev_paths1"] = p["dev_paths2"], !["dev_paths2"] = p["dev_paths1"],
              !["dev_intersections1"] = p["dev_intersections2"],
              !["dev_intersections2"] = p["dev_intersections1"]]

CompactEffect(r) ==
    /\ rayIndex' = r.rayIndex
    /\ numRays' = r.next
    /\ bufPaths' = [bufPaths EXCEPT ![ptr["dev_paths2"][1]] = r.paths2]
    /\ bufIsect' = [bufIsect EXCEPT ![ptr["dev_intersections2"][1]] = r.isect2]
    /\ ptr' = SwapBuffers(ptr)

\* the compaction after the intersection stage, and the break on an empty set
Compact1 ==
    /\ pc = "compact1"
    /\ \E pi \in SortOutcomes(CompactedKeys(rayValid, rayIndex, numRays),
                              NextNumRays(rayValid, ExclusiveScan(rayValid, rayIndex, numRays), numRays),
                              build.sortByMat = 1) :
         CompactEffect(compact_rays(rayValid, rayIndex, numRays, pi))
    /\ pc' = IF numRays' = 0 THEN "gather" ELSE "scatter"
    /\ UNCHANGED <<lastCall, hst_scene, guiData, TracedDepth, serial, renders, cudaErr, build>>
    /\ UNCHANGED <<live, image, rayValid, depth, iter, rng, contrib, ended, pbo, hostImage>>
    /\ UNCHANGED walkVars

\* the compaction after the scatter stage, the progress report and the loop guard
Compact2 ==
    /\ pc = "compact2"
    /\ CompactEffect(compact_rays(rayValid, rayIndex, numRays,
                                   [k \in 0 .. (numRays - 1) |-> k]))
    /\ TracedDepth' = IF guiData THEN depth ELSE TracedDepth
    /\ pc' = IF LoopGuard(numRays', depth) THEN "intersect" ELSE "gather"
    /\ UNCHANGED <<lastCall, hst_scene, guiData, serial, renders, cudaErr, build>>
    /\ UNCHANGED <<live, image, rayValid, depth, iter, rng, contrib, ended, pbo, hostImage>>
    /\ UNCHANGED walkVars

(******************************* scatter ***********************************)
\* mutant: the light hit does not end the path
ShadeEmitting_KeepsFlag(seg, material) ==
    LET c == Vec3Mul(seg.color, Vec3Scale(material.color, material.emittance))
    IN [seg |-> [seg EXCEPT !.color = c],
        valid |-> 1,
        add |-> IF ~util_math_is_nan(c) THEN <<c>> ELSE <<>>]

\* mutant: the emittance is left out of the product
ShadeEmitting_NoEmittance(seg, material) ==
    LET c == Vec3Mul(seg.color, material.color)
    IN [seg |-> [seg EXCEPT !.color = c],
        valid |-> 0,
        add |-> IF ~util_math_is_nan(c) THEN <<c>> ELSE <<>>]

\* the emitting branch of scatter_on_intersection: new segment, flag, and the
\* values added to the image at the segment's pixel
ShadeEmitting(seg, material) ==
    LET c == Vec3Mul(seg.color, Vec3Scale(material.color, material.emittance))
    IN [seg |-> [seg EXCEPT !.color = c],
        valid |-> 0,
        add |-> IF ~util_math_is_nan(c) THEN <<c>> ELSE <<>>]

\* mutant: a sample with pdf <= 0 does not end the path
ShadeSample_DeadStaysValid(seg, sample) ==
    IF sample.pdf > 0
    THEN [seg |-> [seg EXCEPT !.color =
                     Vec3Mul(@, Vec3Div(Vec3Scale(sample.bxdf, sample.abscos), sample.pdf))],
          valid |-> 1, add |-> <<>>]
    ELSE [seg |-> seg, valid |-> 1, add |-> <<>>]

\* the sampling branch: the sample comes from one of the BSDF samplers
ShadeSample(seg, sample) ==
    IF sample.pdf > 0
    THEN [seg |-> [seg EXCEPT !.color =
                     Vec3Mul(@, Vec3Div(Vec3Scale(sample.bxdf, sample.abscos), sample.pdf))],
          valid |-> 1, add |-> <<>>]
    ELSE [seg |-> seg, valid |-> 0, add |-> <<>>]

scatter_on_intersection(seg, intersection, sample) ==
    LET material == SceneMaterials[intersection.materialId]
    IN IF material.type = emitting
       THEN ShadeEmitting(seg, material)
       ELSE ShadeSample(seg, sample)

\* the seed of lane idx in scatter_on_intersection
ScatterSeed(it, idx) == makeSeededRandomEngine(it, idx, 0)

RECURSIVE AddAll(_, _)
\* v plus every value of the sequence adds, in order
AddAll(v, adds) == IF adds = <<>> THEN v ELSE AddAll(Vec3Add(v, Head(adds)), Tail(adds))

RECURSIVE AddsFor(_, _, _, _)
\* the values lanes [0, n) add at pixel p, in lane order
AddsFor(p, segs, out, n) ==
    IF n = 0 THEN <<>>
    ELSE AddsFor(p, segs, out, n - 1)
         \o (IF segs[n - 1].pixelIndex = p THEN out[n - 1].add ELSE <<>>)

ImageAfter(img, segs, out, n) ==
    [p \in DOMAIN img |-> AddAll(img[p], AddsFor(p, segs, out, n))]
ContribAfter(segs, out, n) ==
    [p \in DOMAIN contrib |-> contrib[p] \o AddsFor(p, segs, out, n)]

Scatter ==
    /\ pc = "scatter"
    /\ \E sample \in [ActiveLanes -> Samples] :
         LET out == [l \in ActiveLanes |->
                       scatter_on_intersection(Paths1[l], Isect1[l], sample[l])]
         IN /\ bufPaths' = [bufPaths EXCEPT ![ptr["dev_paths1"][1]] =
                  [l \in Lanes |-> IF l \in ActiveLanes THEN out[l].seg ELSE @[l]]]
            /\ rayValid' = [l \in Lanes |->
                  IF l \in ActiveLanes THEN out[l].valid ELSE rayValid[l]]
            /\ image' = ImageAfter(image, Paths1, out, numRays)
            /\ contrib' = ContribAfter(Paths1, out, numRays)
            /\ ended' = EndedAfter({l \in ActiveLanes :
                                      /\ SceneMaterials[Isect1[l].materialId].type # emitting
                                      /\ sample[l].pdf <= 0}, "pdf")
    /\ rng' = [l \in Lanes |-> IF l \in ActiveLanes THEN ScatterSeed(iter, l) ELSE rng[l]]
    /\ pc' = "compact2"
    /\ UNCHANGED <<lastCall, hst_scene, guiData, TracedDepth, serial, renders, cudaErr, build>>
    /\ UNCHANGED <<ptr, live, bufIsect>>
    /\ UNCHANGED <<rayIndex, numRays, depth, iter, pbo, hostImage>>
    /\ UNCHANGED walkVars

(************************** finalGather, present ***************************)
\* mutant: the throughput is added without the NaN test
finalGather_NoNanGuard(iterationPath) == [add |-> <<iterationPath.color>>]

finalGather(iterationPath) ==
    [add |-> IF ~util_math_is_nan(iterationPath.color)
             THEN <<iterationPath.color>> ELSE <<>>]

\* if (numRays) finalGather<<<...>>>(numRays, dev_image, dev_paths1)
Gather ==
    /\ pc = "gather"
    /\ LET out == [l \in ActiveLanes |-> finalGather(Paths1[l])]
       IN /\ image' = ImageAfter(image, Paths1, out, numRays)
          /\ contrib' = ContribAfter(Paths1, out, numRays)
    /\ pc' = "present"
    /\ UNCHANGED <<lastCall, hst_scene, guiData, TracedDepth, serial, renders, cudaErr, build>>
    /\ UNCHANGED <<ptr, live, bufPaths, bufIsect>>
    /\ UNCHANGED <<rayValid, rayIndex, numRays, depth, iter, rng, ended, pbo, hostImage>>
    /\ UNCHANGED walkVars

Clamp(v, lo, hi) == IF v < lo THEN lo ELSE IF v > hi THEN hi ELSE v

\* one channel of sendImageToPBO: clamp((int)(pix / iter * 255.0), 0, 255)
Channel(c, it) == IF IsNanF(c) THEN 0 ELSE Clamp((c * 255) \div it, 0, 255)

\* mutant: a NaN pixel is shown like any other
sendImageToPBO_NoSentinel(pix, it) ==
    <<Channel(pix[1], it), Channel(pix[2], it), Channel(pix[3], it), 0>>

sendImageToPBO(pix, it) ==
    IF util_math_is_nan(pix) THEN <<255, 192, 203, 0>>
    ELSE <<Channel(pix[1], it), Channel(pix[2], it), Channel(pix[3], it), 0>>

\* sendImageToPBO, the copy of the image to the host, cudaFree of the two
\* flag arrays and the last error check; the locals of pathtrace, its
\* engines and this iteration's history end with the call
Present ==
    /\ pc = "present"
    /\ pbo' = [p \in Lanes |-> sendImageToPBO(image[p], iter)]
    /\ hostImage' = image
    /\ rayValid' = <<>>
    /\ rayIndex' = <<>>
    /\ numRays' = 0
    /\ depth' = 0
    /\ iter' = 0
    /\ rng' = <<>>
    /\ contrib' = [p \in Lanes |-> <<>>]
    /\ ended' = [p \in Lanes |-> "no"]
    /\ pc' = checkCUDAError(cudaErr, "idle")
    /\ UNCHANGED <<lastCall, hst_scene, guiData, TracedDepth, serial, renders, cudaErr, build>>
    /\ UNCHANGED memVars
    /\ UNCHANGED walkVars

(***************************** specification *******************************)
Next ==
    \/ \E g \in BOOLEAN : InitDataContainer(g)
    \/ \E s \in Scenes : pathtraceInit(s)
    \/ \E s \in Scenes : pathtraceFree(s)
    \/ \E it \in IterIndices : Generate(it)
    \/ Intersect
    \/ Compact1
    \/ Scatter
    \/ Compact2
    \/ Gather
    \/ Present

Spec == Init /\ [][Next]_vars

(************************ allocation and launch failures *******************)
\* pathtraceInit with a failing cudaMalloc: the check at its end exits
pathtraceInitAllocFail(scene) ==
    /\ pc = "idle"
    /\ serial < MaxInits
    /\ serial' = serial + 1
    /\ lastCall' = "pathtraceInit"
    /\ hst_scene' = scene
    /\ cudaErr' = TRUE
    /\ pc' = checkCUDAError(cudaErr', "idle")
    /\ UNCHANGED <<guiData, TracedDepth, renders, build, memVars, iterVars>>
    /\ UNCHANGED walkVars

\* generateRayFromCamera fails to launch: the check that follows it exits
GenerateLaunchFail(it) ==
    /\ pc = "idle"
    /\ hst_scene # NoScene
    /\ Initialised
    /\ renders < MaxRenders
    /\ renders' = renders + 1
    /\ lastCall' = "pathtrace"
    /\ iter' = it
    /\ cudaErr' = TRUE
    /\ pc' = checkCUDAError(cudaErr', "intersect")
    /\ UNCHANGED <<hst_scene, guiData, TracedDepth, serial, build, memVars>>
    /\ UNCHANGED <<rayValid, rayIndex, numRays, depth, rng, contrib, ended, pbo, hostImage>>
    /\ UNCHANGED walkVars

\* cudaMalloc of rayValid or rayIndex fails: no check follows before the loop
RayBufAllocFail(it) ==
    /\ Generate(it)!1
    /\ Generate(it)!2
    /\ Generate(it)!3
    /\ Generate(it)!4
    /\ renders' = renders + 1
    /\ lastCall' = "pathtrace"
    /\ iter' = it
    /\ bufPaths' = [bufPaths EXCEPT ![ptr["dev_paths1"][1]] =
                      [l \in Lanes |-> generateRayFromCamera(l, hst_scene.traceDepth)]]
    /\ rng' = [l \in Lanes |-> makeSeededRandomEngine(PixelX(l), PixelY(l), it)]
    /\ depth' = 0
    /\ numRays' = pixelcount
    /\ rayValid' = [l \in Lanes |-> PoisonInt]
    /\ rayIndex' = [l \in Lanes |-> PoisonInt]
    /\ contrib' = [p \in Lanes |-> <<>>]
    /\ ended' = [p \in Lanes |-> "no"]
    /\ cudaErr' = TRUE
    /\ pc' = IF LoopGuard(numRays', depth') THEN "intersect" ELSE "gather"
    /\ UNCHANGED <<hst_scene, guiData, TracedDepth, serial, build>>
    /\ UNCHANGED <<ptr, live, image, bufIsect, pbo, hostImage>>
    /\ UNCHANGED walkVars

\* the intersection kernel fails to launch after the memset: the check exits
IntersectLaunchFail ==
    /\ pc = "intersect"
    /\ bufIsect' = [bufIsect EXCEPT ![ptr["dev_intersections1"][1]] = PathArray(ZeroIsect)]
    /\ depth' = depth + 1
    /\ cudaErr' = TRUE
    /\ pc' = checkCUDAError(cudaErr', "compact1")
    /\ UNCHANGED <<lastCall, hst_scene, guiData, TracedDepth, serial, renders, build>>
    /\ UNCHANGED <<ptr, live, image, bufPaths>>
    /\ UNCHANGED <<rayValid, rayIndex, numRays, iter, rng, contrib, ended, pbo, hostImage>>
    /\ UNCHANGED walkVars

\* scatter_on_intersection fails to launch: nothing checks before compact_rays
ScatterLaunchFail ==
    /\ pc = "scatter"
    /\ cudaErr' = TRUE
    /\ pc' = "compact2"
    /\ UNCHANGED <<lastCall, hst_scene, guiData, TracedDepth, serial, renders, build>>
    /\ UNCHANGED <<memVars, iterVars>>
    /\ UNCHANGED walkVars

\* thrust finds the pending error inside compact_rays and throws: the
\* exception is not caught and the process terminates
CompactThrow ==
    /\ pc = "compact2"
    /\ cudaErr
    /\ pc' = "exited"
    /\ UNCHANGED <<lastCall, hst_scene, guiData, TracedDepth, serial, renders, cudaErr, build>>
    /\ UNCHANGED <<memVars, iterVars>>
    /\ UNCHANGED walkVars

\* finalGather fails to launch: the check comes after sendImageToPBO
GatherLaunchFail ==
    /\ pc = "gather"
    /\ numRays # 0
    /\ cudaErr' = TRUE
    /\ pc' = "present"
    /\ UNCHANGED <<lastCall, hst_scene, guiData, TracedDepth, serial, renders, build>>
    /\ UNCHANGED <<memVars, iterVars>>
    /\ UNCHANGED walkVars

Fault ==
    \/ \E s \in Scenes : pathtraceInitAllocFail(s)
    \/ \E it \in IterIndices : GenerateLaunchFail(it)
    \/ \E it \in IterIndices : RayBufAllocFail(it)
    \/ IntersectLaunchFail
    \/ ScatterLaunchFail
    \/ CompactThrow
    \/ GatherLaunchFail

NextFault == Next \/ Fault

SpecFault == Init /\ [][NextFault]_vars

(********************** the kernels on arbitrary buffers *******************)
\* image values a kernel can find: zero, a finite sum, a sum with a NaN
KernelPixels == {<<0, 0, 0>>, <<2, 1, 0>>, <<1, NaN, 0>>}
\* throughputs a kernel can find in an active path
KernelColors == {<<1, 1, 1>>, <<NaN, 1, 1>>}

\* path buffers in which every pixel owns one path, in any lane order
KernelPaths ==
    {[l \in Lanes |-> [pixelIndex |-> pi[l], color |-> c[l], remainingBounces |-> 2]] :
        pi \in Permutations(Lanes), c \in [Lanes -> KernelColors]}

\* intersection records of hits, as the BVH kernel leaves them
KernelIsects ==
    {[l \in Lanes |-> [t |-> 7, materialId |-> m[l], type |-> SceneMaterials[m[l]].type]] :
        m \in [Lanes -> MaterialIds]}

\* scatter_on_intersection, finalGather and sendImageToPBO launched on any
\* image, path buffer and record buffer with any active count
InitKernel ==
    /\ pc \in {"scatter", "gather"}
    /\ lastCall = "pathtrace"
    /\ hst_scene \in Scenes
    /\ guiData = FALSE
    /\ TracedDepth = 0
    /\ ptr = [b \in BufNames |-> IF b \in SceneBufs(hst_scene) THEN <<b, 1>> ELSE NullPtr]
    /\ live = {<<b, 1>> : b \in SceneBufs(hst_scene)}
    /\ serial = 1
    /\ renders = 1
    /\ cudaErr = FALSE
    /\ image \in [Lanes -> KernelPixels]
    /\ \E paths \in KernelPaths :
         bufPaths = ("dev_paths1" :> paths) @@ ("dev_paths2" :> PathArray(PoisonPath))
    /\ \E recs \in KernelIsects :
         bufIsect = ("dev_intersections1" :> recs) @@ ("dev_intersections2" :> PathArray(PoisonIsect))
    /\ rayValid = [l \in Lanes |-> 1]
    /\ rayIndex = [l \in Lanes |-> l]
    /\ numRays \in 1 .. pixelcount
    /\ depth = 1
    /\ iter \in IterIndices
    /\ rng = [l \in Lanes |-> makeSeededRandomEngine(PixelX(l), PixelY(l), iter)]
    /\ contrib = [p \in Lanes |-> <<>>]
    /\ ended = [p \in Lanes |-> "no"]
    /\ pbo = [p \in Lanes |-> <<0, 0, 0, 0>>]
    /\ hostImage = [p \in Lanes |-> Black]
    /\ build = ShippedBuild
    /\ WalkIdle

NextKernel ==
    \/ Scatter
    \/ Gather
    \/ Present

SpecKernel == InitKernel /\ [][NextKernel]_vars

(************************ the scene of one intersection thread *************)
\* Object list: a box, a sphere and a mesh of two triangles
SceneObjects ==
    (0 :> [type |-> "CUBE", materialid |-> 0, triangleStart |-> 0, triangleEnd |-> 0])
 @@ (1 :> [type |-> "SPHERE", materialid |-> 1, triangleStart |-> 0, triangleEnd |-> 0])
 @@ (2 :> [type |-> "MODEL", materialid |-> 0, triangleStart |-> 0, triangleEnd |-> 2])

\* Primitive list: owning object and, for a mesh, the local triangle offset
ScenePrimitives ==
    (0 :> [objID |-> 0, offset |-> 0])
 @@ (1 :> [objID |-> 1, offset |-> 0])
 @@ (2 :> [objID |-> 2, offset |-> 0])
 @@ (3 :> [objID |-> 2, offset |-> 1])
PrimIds == DOMAIN ScenePrimitives
\* the primitive of an object's shape or of one of its triangles
PrimOf(objID, offset) ==
    CHOOSE q \in DOMAIN primitives : primitives[q] = [objID |-> objID, offset |-> offset]

\* a scene without a mesh: the box and the sphere alone
AnalyticObjects == [g \in {0, 1} |-> SceneObjects[g]]
AnalyticPrimitives == [q \in {0, 1} |-> ScenePrimitives[q]]

Leaf(parent, s, e) ==
    [left |-> -1, right |-> -1, parent |-> parent, startPrim |-> s, endPrim |-> e]
Inner(parent, l, r) ==
    [left |-> l, right |-> r, parent |-> parent, startPrim |-> -1, endPrim |-> -1]

\* flattened BVHs over the four primitives: a root that is a leaf, a root with
\* two leaves, and the two five-node trees
Tree1 == (0 :> Leaf(-1, 0, 4))
Tree3 == (0 :> Inner(-1, 1, 2)) @@ (1 :> Leaf(0, 0, 2)) @@ (2 :> Leaf(0, 2, 4))
Tree5 ==
    (0 :> Inner(-1, 1, 2)) @@ (1 :> Leaf(0, 0, 1)) @@ (2 :> Inner(0, 3, 4))
 @@ (3 :> Leaf(2, 1, 2)) @@ (4 :> Leaf(2, 2, 4))
Tree5m ==
    (0 :> Inner(-1, 1, 2)) @@ (1 :> Inner(0, 3, 4)) @@ (2 :> Leaf(0, 3, 4))
 @@ (3 :> Leaf(1, 0, 1)) @@ (4 :> Leaf(1, 1, 3))
Trees == {Tree1, Tree3, Tree5, Tree5m}
\* flattened BVHs over the two primitives of the scene without a mesh
TreeA1 == (0 :> Leaf(-1, 0, 2))
TreeA3 == (0 :> Inner(-1, 1, 2)) @@ (1 :> Leaf(0, 0, 1)) @@ (2 :> Leaf(0, 1, 2))
AnalyticTrees == {TreeA1, TreeA3}

\* the scenes an intersection thread is launched on
WalkScenes ==
    { [objects |-> SceneObjects, primitives |-> ScenePrimitives, trees |-> Trees],
      [objects |-> AnalyticObjects, primitives |-> AnalyticPrimitives, trees |-> AnalyticTrees] }

NonRoot(arr) == DOMAIN arr \ {0}

\* results of the ray/shape tests of one ray: -1 is a miss
TestResults == {-1, 1, 2}
\* distances from the ray origin to the centre of a node's box
CentreDistances == {1, 2}

\* what one ray does to a tree: which boxes boundingBoxIntersectionTest
\* accepts, how far each box centre is, and the t of every primitive test
Rays(arr) ==
    [boxHit : [DOMAIN arr -> BOOLEAN],
     centreDist : [NonRoot(arr) -> CentreDistances],
     primT : [DOMAIN primitives -> TestResults]]

\* tmpIntersection.t = 1e20f, float t_min = FLT_MAX
T1e20 == 100
FLT_MAX == 1000

(***************************** BVH helpers *********************************)
InArray(arr, i) == i \in DOMAIN arr

util_bvh_get_sibling(arr, c) ==
    LET parent == arr[c].parent
    IN IF parent = -1 THEN -1
       ELSE IF arr[parent].left = c THEN arr[parent].right ELSE arr[parent].left

\* util_bvh_get_near_child: the values it can return. A child index outside
\* the array makes it compare two boxes read from outside the array, so
\* either child can come back
util_bvh_get_near_child(arr, c, ray) ==
    IF InArray(arr, arr[c].left) /\ InArray(arr, arr[c].right)
    THEN IF ray.centreDist[arr[c].left] < ray.centreDist[arr[c].right]
         THEN {arr[c].left} ELSE {arr[c].right}
    ELSE {arr[c].left, arr[c].right}

\* the node indices util_bvh_get_near_child reads outside the array
NearChildBadReads(arr, c) == {i \in {arr[c].left, arr[c].right} : ~InArray(arr, i)}

util_bvh_is_leaf(arr, c) == arr[c].left = -1 /\ arr[c].right = -1

\* the test the leaf loop runs for a primitive, by the type of its object;
\* t keeps its old value for any other type
LeafTest(ray, prim, told) ==
    IF objects[primitives[prim].objID].type \in {"MODEL", "CUBE", "SPHERE"}
    THEN ray.primT[prim] ELSE told

RECURSIVE LeafLoop(_, _, _, _, _, _)
\* the loop of util_bvh_leaf_intersect from primitive i on
LeafLoop(ray, i, primsEnd, t, isect, hit) ==
    IF i = primsEnd THEN [isect |-> isect, intersected |-> hit]
    ELSE LET tn == LeafTest(ray, i, t)
         IN IF tn > 0 /\ tn < isect.t
            THEN LeafLoop(ray, i + 1, primsEnd, tn,
                          [isect EXCEPT !.t = tn,
                                        !.materialId = objects[primitives[i].objID].materialid,
                                        !.normal = i],
                          TRUE)
            ELSE LeafLoop(ray, i + 1, primsEnd, tn, isect, hit)

util_bvh_leaf_intersect(arr, c, ray, isect) ==
    LeafLoop(ray, arr[c].startPrim, arr[c].endPrim, -1, isect, FALSE)

\* the indices at which the leaf loop reads modelTriangles
LeafTriReads(arr, c) ==
    {objects[primitives[i].objID].triangleStart + primitives[i].offset :
        i \in {q \in DOMAIN primitives :
                 /\ arr[c].startPrim <= q /\ q < arr[c].endPrim
                 /\ objects[primitives[q].objID].type = "MODEL"}}

(************************** brute-force intersection ***********************)
RECURSIVE TriangleLoop(_, _, _, _)
\* the triangle loop of compute_intersection for mesh g, from triangle i on
TriangleLoop(ray, g, i, acc) ==
    IF i = objects[g].triangleEnd THEN acc
    ELSE LET q == PrimOf(g, i - objects[g].triangleStart)
             t == ray.primT[q]
         IN TriangleLoop(ray, g, i + 1,
               IF t > 0 /\ acc.t_min > t
               THEN [t |-> t, tmp_normal |-> q, t_min |-> t,
                     hit_material_index |-> objects[g].materialid, normal |-> q]
               ELSE [acc EXCEPT !.t = t, !.tmp_normal = q])

\* one round of the object loop: the shape test, then the minimum update
ObjectStep(ray, g, acc) ==
    LET a == IF objects[g].type \in {"CUBE", "SPHERE"}
             THEN [acc EXCEPT !.t = ray.primT[PrimOf(g, 0)], !.tmp_normal = PrimOf(g, 0)]
             ELSE IF objects[g].type = "MODEL"
             THEN TriangleLoop(ray, g, objects[g].triangleStart, acc)
             ELSE acc
    IN IF a.t > 0 /\ a.t_min > a.t
       THEN [a EXCEPT !.t_min = a.t, !.hit_material_index = objects[g].materialid,
                      !.normal = a.tmp_normal]
       ELSE a

RECURSIVE ObjectLoop(_, _, _)
ObjectLoop(ray, g, acc) ==
    IF g \notin DOMAIN objects THEN acc
    ELSE ObjectLoop(ray, g + 1, ObjectStep(ray, g, acc))

\* the indices at which compute_intersection reads modelTriangles
BruteTriReads ==
    UNION {objects[g].triangleStart .. (objects[g].triangleEnd - 1) :
              g \in {h \in DOMAIN objects : objects[h].type = "MODEL"}}

\* the cleared record an intersection thread finds in its lane
ClearedRecord == [t |-> 0, materialId |-> 0, normal |-> 0, type |-> 0]

\* compute_intersection for one ray: the flag and the record it leaves
compute_intersection(ray) ==
    LET acc == ObjectLoop(ray, 0,
                   [t |-> -1, tmp_normal |-> -1, t_min |-> FLT_MAX,
                    hit_material_index |-> -1, normal |-> -1])
    IN IF acc.t_min = FLT_MAX
       THEN [valid |-> 0, isect |-> ClearedRecord]
       ELSE [valid |-> 1,
             isect |-> [ClearedRecord EXCEPT !.t = acc.t_min,
                                             !.materialId = acc.hit_material_index,
                                             !.normal = acc.normal]]

(************************** the stackless walk *****************************)
InitBVH ==
    /\ InitHost
    /\ build = ShippedBuild
    /\ \E scene \in WalkScenes :
         /\ objects = scene.objects
         /\ primitives = scene.primitives
         /\ bvhArray \in scene.trees
    /\ rayIn \in Rays(bvhArray)
    /\ triReads = {}
    /\ wpc = "start"
    /\ curr = 0
    /\ state = "fromParent"
    /\ tmpIntersection = <<>>
    /\ intersected = FALSE
    /\ tested = <<>>
    /\ badReads = {}
    /\ outValid = 0
    /\ outIsect = ClearedRecord

\* the reads outside the array either return what lies there or fault
StartOutcomes ==
    IF NearChildBadReads(bvhArray, 0) = {} THEN {"walk"} ELSE {"walk", "fault"}

\* lines 392-401: the first near child and the locals
WalkStart ==
    /\ wpc = "start"
    /\ \E c \in util_bvh_get_near_child(bvhArray, 0, rayIn), o \in StartOutcomes :
         /\ curr' = c
         /\ wpc' = o
    /\ badReads' = badReads \cup NearChildBadReads(bvhArray, 0)
    /\ state' = "fromParent"
    /\ tmpIntersection' = [t |-> T1e20, materialId |-> -1, normal |-> -1, type |-> -1]
    /\ intersected' = FALSE
    /\ UNCHANGED <<objects, primitives, bvhArray, rayIn, tested, triReads, outValid, outIsect>>
    /\ UNCHANGED <<hostVars, memVars, iterVars>>

InLoop == wpc = "walk" /\ curr >= 0 /\ curr < Cardinality(DOMAIN bvhArray)

\* mutant: the walk never crosses to the far side on its way up
StepFromChild_AlwaysUp ==
    /\ InLoop
    /\ state = "fromChild"
    /\ curr # 0
    /\ curr' = bvhArray[curr].parent
    /\ state' = "fromChild"
    /\ UNCHANGED <<objects, primitives, bvhArray, rayIn, wpc, tmpIntersection, intersected,
                    tested, badReads, triReads, outValid, outIsect>>
    /\ UNCHANGED <<hostVars, memVars, iterVars>>

\* one pass of the loop in state fromChild, short of the break at the root
StepFromChild ==
    /\ InLoop
    /\ state = "fromChild"
    /\ curr # 0
    /\ LET parent == bvhArray[curr].parent
       IN /\ \E near \in util_bvh_get_near_child(bvhArray, parent, rayIn) :
               IF curr = near
               THEN curr' = util_bvh_get_sibling(bvhArray, curr) /\ state' = "fromSibling"
               ELSE curr' = parent /\ state' = "fromChild"
          /\ badReads' = badReads \cup NearChildBadReads(bvhArray, parent)
    /\ UNCHANGED <<objects, primitives, bvhArray, rayIn, wpc, tmpIntersection, intersected,
                    tested, triReads, outValid, outIsect>>
    /\ UNCHANGED <<hostVars, memVars, iterVars>>

\* what a tested leaf leaves in the locals
LeafEffect ==
    LET r == util_bvh_leaf_intersect(bvhArray, curr, rayIn, tmpIntersection)
    IN /\ tmpIntersection' = r.isect
       /\ intersected' = (intersected \/ r.intersected)
       /\ tested' = Append(tested, curr)
       /\ triReads' = triReads \cup LeafTriReads(bvhArray, curr)

\* one pass of the loop in state fromSibling
StepFromSibling ==
    /\ InLoop
    /\ state = "fromSibling"
    /\ IF ~rayIn.boxHit[curr]
       THEN /\ curr' = bvhArray[curr].parent
            /\ state' = "fromChild"
            /\ UNCHANGED <<tmpIntersection, intersected, tested, triReads, badReads>>
       ELSE IF util_bvh_is_leaf(bvhArray, curr)
       THEN /\ LeafEffect
            /\ curr' = bvhArray[curr].parent
            /\ state' = "fromChild"
            /\ UNCHANGED badReads
       ELSE /\ \E near \in util_bvh_get_near_child(bvhArray, curr, rayIn) : curr' = near
            /\ state' = "fromParent"
            /\ badReads' = badReads \cup NearChildBadReads(bvhArray, curr)
            /\ UNCHANGED <<tmpIntersection, intersected, tested, triReads>>
    /\ UNCHANGED <<objects, primitives, bvhArray, rayIn, wpc, outValid, outIsect>>
    /\ UNCHANGED <<hostVars, memVars, iterVars>>

\* one pass of the loop in state fromParent
StepFromParent ==
    /\ InLoop
    /\ state = "fromParent"
    /\ IF ~rayIn.boxHit[curr]
       THEN /\ curr' = util_bvh_get_sibling(bvhArray, curr)
            /\ state' = "fromSibling"
            /\ UNCHANGED <<tmpIntersection, intersected, tested, triReads, badReads>>
       ELSE IF util_bvh_is_leaf(bvhArray, curr)
       THEN /\ LeafEffect
            /\ curr' = util_bvh_get_sibling(bvhArray, curr)
            /\ state' = "fromSibling"
            /\ UNCHANGED badReads
       ELSE /\ \E near \in util_bvh_get_near_child(bvhArray, curr, rayIn) : curr' = near
            /\ state' = "fromParent"
            /\ badReads' = badReads \cup NearChildBadReads(bvhArray, curr)
            /\ UNCHANGED <<tmpIntersection, intersected, tested, triReads>>
    /\ UNCHANGED <<objects, primitives, bvhArray, rayIn, wpc, outValid, outIsect>>
    /\ UNCHANGED <<hostVars, memVars, iterVars>>

\* the loop ends (curr out of range, or the root in state fromChild) and
\* lines 464-469 write the flag and, on a hit, the record and its type tag
WalkFinish ==
    /\ wpc = "walk"
    /\ ~InLoop \/ (state = "fromChild" /\ curr = 0)
    /\ wpc' = "done"
    /\ outValid' = IF intersected THEN 1 ELSE 0
    /\ outIsect' = IF intersected
                   THEN [tmpIntersection EXCEPT
                           !.type = SceneMaterials[tmpIntersection.materialId].type]
                   ELSE outIsect
    /\ UNCHANGED <<objects, primitives, bvhArray, rayIn, curr, state, tmpIntersection,
                    intersected, tested, badReads, triReads>>
    /\ UNCHANGED <<hostVars, memVars, iterVars>>

NextBVH ==
    \/ WalkStart
    \/ StepFromChild
    \/ StepFromSibling
    \/ StepFromParent
    \/ WalkFinish

SpecBVH == InitBVH /\ [][NextBVH]_vars

(******************************* claims ************************************)
AtCompaction == pc \in {"compact1", "compact2"}
FlagsAreBits == \A l \in ActiveLanes : rayValid[l] \in {0, 1}
OnesAmong(flags, n) == Cardinality({l \in 0 .. (n - 1) : flags[l] = 1})

\* C1: every compact_rays call on N >= 1 lanes with flags in {0,1} returns the
\* number of 1-flags among lanes [0, N); so the count never grows, and it
\* stays N exactly when every flag was 1.
C1_CompactCount ==
    [][(AtCompaction /\ numRays >= 1 /\ FlagsAreBits) =>
         /\ numRays' = OnesAmong(rayValid, numRays)
         /\ numRays' <= numRays
         /\ (numRays' = numRays) <=> (\A l \in ActiveLanes : rayValid[l] = 1)]_vars

\* C1 witness: a compaction has just dropped lane 0 and kept lane 1
C1_Witness ==
    /\ pc = "scatter"
    /\ rayValid[0] = 0
    /\ rayValid[1] = 1
    /\ numRays = OnesAmong(rayValid, NumPixels)

RECURSIVE Survivors(_, _)
\* the lanes of [0, n) whose flag is 1, in increasing order
Survivors(flags, n) ==
    IF n = 0 THEN <<>>
    ELSE IF flags[n - 1] = 1 THEN Append(Survivors(flags, n - 1), n - 1)
    ELSE Survivors(flags, n - 1)

NoSortRequested == pc = "compact2" \/ build.sortByMat = 0

\* C2: without a material sort, compact_rays leaves in the first n' lanes of
\* the new current buffers exactly the flag-1 paths of the old current
\* buffer, in their old order, each beside its own intersection record.
C2_CompactOrder ==
    [][(AtCompaction /\ NoSortRequested) =>
         LET kept == Survivors(rayValid, numRays)
         IN /\ numRays' = Len(kept)
            /\ \A k \in 0 .. (numRays' - 1) :
                 /\ Paths1'[k] = Paths1[kept[k + 1]]
                 /\ Isect1'[k] = Isect1[kept[k + 1]]]_vars

\* C2 witness: the path of pixel 1 survived alone and now sits in lane 0
\* with the record of its emitter hit
C2_Witness ==
    /\ pc = "scatter"
    /\ numRays = 1
    /\ rayValid[0] = 0
    /\ Paths1[0].pixelIndex = 1
    /\ Isect1[0].materialId = 1
    /\ Isect1[1].materialId # 1

\* C3: within one pathtrace call, nothing is added to the image at a path's
\* pixel more than once.
C3_AtMostOnce == \A p \in Lanes : Len(contrib[p]) <= 1

\* C3 witness: one path was added on an emitter hit, another by finalGather
C3_Witness ==
    /\ pc = "present"
    /\ numRays >= 1
    /\ \A p \in Lanes : Len(contrib[p]) = 1
    /\ \E p \in Lanes : \A l \in ActiveLanes : Paths1[l].pixelIndex # p

HitsEmitter(l) == SceneMaterials[Isect1[l].materialId].type = emitting
EmittedBy(l) ==
    LET m == SceneMaterials[Isect1[l].materialId]
    IN Vec3Scale(Vec3Mul(Paths1[l].color, m.color), m.emittance)
ValidEmitters(p) ==
    {l \in ActiveLanes : HitsEmitter(l) /\ Paths1[l].pixelIndex = p
                         /\ ~util_math_is_nan(EmittedBy(l))}

\* C4: a path whose hit is an emitting material gets flag 0 in that scatter
\* call, is gone after the compaction that follows, and adds throughput x
\* colour x emittance, when that is a number, at its own pixel only.
C4_EmitterHit ==
    [][/\ pc = "scatter" =>
            /\ \A l \in ActiveLanes : HitsEmitter(l) =>
                 /\ rayValid'[l] = 0
                 /\ ~util_math_is_nan(EmittedBy(l)) =>
                      /\ contrib'[Paths1[l].pixelIndex]
                           = Append(contrib[Paths1[l].pixelIndex], EmittedBy(l))
                      /\ image'[Paths1[l].pixelIndex]
                           = Vec3Add(image[Paths1[l].pixelIndex], EmittedBy(l))
            /\ \A p \in Lanes :
                 Len(contrib'[p]) = Len(contrib[p]) + Cardinality(ValidEmitters(p))
       /\ pc = "compact2" =>
            \A l \in ActiveLanes : rayValid[l] = 0 =>
               \A k \in 0 .. (numRays' - 1) :
                  Paths1'[k].pixelIndex # Paths1[l].pixelIndex]_vars

\* C4 witness: after one bounce a throughput of (1,0,1) met the light
C4_Witness ==
    /\ pc = "compact2"
    /\ \E l \in ActiveLanes :
         /\ HitsEmitter(l)
         /\ rayValid[l] = 0
         /\ Paths1[l].color = <<5, 0, 0>>
         /\ contrib[Paths1[l].pixelIndex] = << <<5, 0, 0>> >>

\* C5 as stated: a path still active when the loop ends at the depth cap has
\* its throughput added by finalGather exactly once.
C5_GatheredOnce ==
    (pc = "present" /\ depth = MAX_ITER) =>
        \A l \in ActiveLanes : contrib[Paths1[l].pixelIndex] = <<Paths1[l].color>>

\* C5 amended: it is added exactly once when it has no NaN component, and
\* not at all when it has one.
C5_GatheredOnceUnlessNaN ==
    (pc = "present" /\ depth = MAX_ITER) =>
        \A l \in ActiveLanes :
            contrib[Paths1[l].pixelIndex] =
                IF util_math_is_nan(Paths1[l].color) THEN <<>> ELSE <<Paths1[l].color>>

\* C5 witness: a path reached the cap with throughput (1,0,1) and was added,
\* another reached it with a NaN component and was not
C5_Witness ==
    /\ pc = "present"
    /\ depth = MAX_ITER
    /\ \E l \in ActiveLanes :
         /\ Paths1[l].color = <<1, 0, 1>>
         /\ contrib[Paths1[l].pixelIndex] = << <<1, 0, 1>> >>
    /\ \E l \in ActiveLanes :
         /\ util_math_is_nan(Paths1[l].color)
         /\ contrib[Paths1[l].pixelIndex] = <<>>

RECURSIVE PrimsUnder(_, _)
\* the primitives in the leaf ranges below node n
PrimsUnder(arr, n) ==
    IF arr[n].left = -1 /\ arr[n].right = -1
    THEN {q \in DOMAIN primitives : arr[n].startPrim <= q /\ q < arr[n].endPrim}
    ELSE PrimsUnder(arr, arr[n].left) \cup PrimsUnder(arr, arr[n].right)

\* section 3's invariants of the node array
DataModelInvariant(arr) ==
    /\ arr[0].parent = -1
    /\ \A n \in NonRoot(arr) :
         /\ InArray(arr, arr[n].parent)
         /\ arr[arr[n].parent].left = n \/ arr[arr[n].parent].right = n
    /\ \A n \in DOMAIN arr :
         \/ arr[n].left = -1 /\ arr[n].right = -1 /\ arr[n].startPrim < arr[n].endPrim
         \/ InArray(arr, arr[n].left) /\ InArray(arr, arr[n].right)
\* every primitive is in a leaf, and a ray that hits a primitive at t > 0
\* also hits every box around it
LeavesCover(arr) == PrimsUnder(arr, 0) = DOMAIN primitives
BoxesEnclose(arr, ray) ==
    \A n \in DOMAIN arr : (\E q \in PrimsUnder(arr, n) : ray.primT[q] > 0) => ray.boxHit[n]

\* C6: on a BVH that keeps the invariants, covers every primitive and whose
\* boxes enclose their primitives, the stackless walk ends with the flag of
\* the brute-force search and, on a hit, with its t, material id and normal.
C6_BvhMatchesBruteForce ==
    (/\ wpc \in {"done", "fault"}
     /\ DataModelInvariant(bvhArray) /\ LeavesCover(bvhArray) /\ BoxesEnclose(bvhArray, rayIn))
    => /\ wpc = "done"
       /\ outValid = compute_intersection(rayIn).valid
       /\ outValid = 1 =>
            /\ outIsect.t = compute_intersection(rayIn).isect.t
            /\ outIsect.materialId = compute_intersection(rayIn).isect.materialId
            /\ outIsect.normal = compute_intersection(rayIn).isect.normal

NothingToRelease == \A b \in BufNames : ptr[b] = NullPtr \/ ptr[b] \notin live

\* C7: a pathtraceFree issued when every buffer is already released, or was
\* never allocated, frees nothing and changes no state.
C7_ReleaseIsNoOp ==
    [][(lastCall' = "pathtraceFree" /\ NothingToRelease) =>
          UNCHANGED <<pc, ptr, live, cudaErr>>]_vars

\* C8: with a progress sink registered, whenever a round has raised depth to
\* d, TracedDepth is d when the next round starts or the loop has ended.
C8_ProgressEachRound ==
    (guiData /\ pc \in {"intersect", "gather"} /\ depth > 0) => TracedDepth = depth

\* C9: in the scatter stage every lane's engine is seeded from the pixel
\* index of its path, the iteration and the depth of the round (counted
\* from 0 or from 1), whatever lane the path occupies.
C9_SeedFromPixelIterDepth ==
    pc = "compact2" =>
        \A l \in ActiveLanes :
            rng[l] \in { makeSeededRandomEngine(iter, Paths1[l].pixelIndex, depth),
                         makeSeededRandomEngine(iter, Paths1[l].pixelIndex, depth - 1) }

\* C10: once an allocation or a launch has failed, the only thing that still
\* happens is the exit of the process: no later stage touches a buffer.
C10_FailureStopsPipeline ==
    [][cudaErr =>
          /\ pc' = "exited"
          /\ UNCHANGED <<image, bufPaths, bufIsect, rayValid, rayIndex, pbo, hostImage>>]_vars

\* the colour a lane's path would add at its pixel in this launch, if any
WouldAdd(l) ==
    IF pc = "gather" THEN <<Paths1[l].color>>
    ELSE IF pc = "scatter" /\ SceneMaterials[Isect1[l].materialId].type = emitting
    THEN <<Vec3Mul(Paths1[l].color,
                   Vec3Scale(SceneMaterials[Isect1[l].materialId].color,
                             SceneMaterials[Isect1[l].materialId].emittance))>>
    ELSE <<>>
\* the pixel after the launch: unchanged unless its path adds a NaN-free colour
PixelAfter(p) ==
    IF \E l \in ActiveLanes :
          Paths1[l].pixelIndex = p /\ WouldAdd(l) # <<>> /\ ~util_math_is_nan(WouldAdd(l)[1])
    THEN Vec3Add(image[p],
                 WouldAdd(CHOOSE l \in ActiveLanes :
                            Paths1[l].pixelIndex = p /\ WouldAdd(l) # <<>>)[1])
    ELSE image[p]
\* the display value of one finite channel
Shown(c, it) ==
    IF (c * 255) \div it > 255 THEN 255 ELSE IF (c * 255) \div it < 0 THEN 0 ELSE (c * 255) \div it

\* C11: a colour with a NaN component is never added to the image (the pixel
\* keeps its value, a NaN-free colour is added once), and presenting leaves
\* the image alone and shows (255,192,203) exactly for the pixels whose
\* accumulated value has a NaN component, the clamped value otherwise.
C11_NaNDroppedAndShown ==
    [][/\ pc \in {"scatter", "gather"} => \A p \in Lanes : image'[p] = PixelAfter(p)
       /\ pc = "present" =>
            /\ image' = image
            /\ \A p \in Lanes :
                 IF \E k \in 1 .. 3 : image[p][k] = NaN
                 THEN pbo'[p] = <<255, 192, 203, 0>>
                 ELSE pbo'[p] = <<Shown(image[p][1], iter), Shown(image[p][2], iter),
                                  Shown(image[p][3], iter), 0>>]_vars
\* a presented frame with a sentinel pixel over a NaN sum, a clamped pixel over
\* a finite sum, and a path whose NaN colour is not in its pixel
C11_Witness ==
    /\ pc = "idle"
    /\ lastCall = "pathtrace"
    /\ \E p \in Lanes : util_math_is_nan(image[p]) /\ pbo[p] = <<255, 192, 203, 0>>
    /\ \E q \in Lanes : ~util_math_is_nan(image[q]) /\ pbo[q][1] = 255
    /\ \E l \in Lanes : /\ util_math_is_nan(Paths1[l].color)
                       /\ ~util_math_is_nan(image[Paths1[l].pixelIndex])

\* the scene has no MODEL object: its triangle and vertex arrays are empty
Meshless == \A g \in DOMAIN objects : objects[g].type # "MODEL"
\* the nearest positive t among the ray's shape tests, 0 when there is none
NearestT(ray) ==
    IF \E q \in DOMAIN primitives : ray.primT[q] > 0
    THEN CHOOSE t \in {ray.primT[q] : q \in DOMAIN primitives} :
            t > 0 /\ \A q \in DOMAIN primitives : ray.primT[q] > 0 => t <= ray.primT[q]
    ELSE 0

\* C12: in a scene without a mesh neither intersection kernel reads the
\* triangle array, and both end with the nearest sphere/box hit of the ray:
\* flag 1 and its t when a shape is hit at t > 0, flag 0 otherwise.
C12_MeshlessSceneResolves ==
    (/\ wpc \in {"done", "fault"}
     /\ Meshless
     /\ DataModelInvariant(bvhArray) /\ LeavesCover(bvhArray) /\ BoxesEnclose(bvhArray, rayIn))
    => /\ triReads = {}
       /\ BruteTriReads = {}
       /\ compute_intersection(rayIn).valid = (IF NearestT(rayIn) > 0 THEN 1 ELSE 0)
       /\ NearestT(rayIn) > 0 => compute_intersection(rayIn).isect.t = NearestT(rayIn)
       /\ wpc = "done"
       /\ outValid = (IF NearestT(rayIn) > 0 THEN 1 ELSE 0)
       /\ NearestT(rayIn) > 0 => outIsect.t = NearestT(rayIn)

\* C13: a round of the bounce loop starts only with an active path and with
\* depth below the scene's trace depth, so depth never exceeds that depth.
C13_RoundsWithinTraceDepth ==
    hst_scene # NoScene =>
        /\ depth <= hst_scene.traceDepth
        /\ pc = "intersect" => (numRays > 0 /\ depth < hst_scene.traceDepth)

\* tree relations read off the node array
ParentOf(n) == bvhArray[n].parent
ChildrenOf(n) == {bvhArray[n].left, bvhArray[n].right}
SiblingOf(n) == CHOOSE m \in ChildrenOf(ParentOf(n)) : m # n
IsLeafNode(n) == ChildrenOf(n) = {-1}
\* the children of n no farther from the ray origin than the other child
NearKids(n) ==
    {m \in ChildrenOf(n) : \A o \in ChildrenOf(n) : rayIn.centreDist[m] <= rayIn.centreDist[o]}
\* the box of curr is missed, or curr is a leaf whose primitives are tested now
MissOrLeaf ==
    \/ ~rayIn.boxHit[curr] /\ tested' = tested
    \/ rayIn.boxHit[curr] /\ IsLeafNode(curr) /\ tested' = Append(tested, curr)

\* C14: every pass of the walk's loop follows the three-state rule. From
\* fromParent: box miss or processed leaf -> sibling, fromSibling; else near
\* child, fromParent. From fromSibling: box miss or processed leaf -> parent,
\* fromChild; else near child, fromParent. From fromChild: stop at the root;
\* else sibling, fromSibling when curr is the nearer child, parent, fromChild
\* when it is the farther one.
C14_ThreeStateRule ==
    [][(wpc = "walk" /\ curr \in DOMAIN bvhArray) =>
         /\ state = "fromParent" =>
              /\ wpc' = "walk"
              /\ IF ~rayIn.boxHit[curr] \/ IsLeafNode(curr)
                 THEN MissOrLeaf /\ curr' = SiblingOf(curr) /\ state' = "fromSibling"
                 ELSE tested' = tested /\ curr' \in NearKids(curr) /\ state' = "fromParent"
         /\ state = "fromSibling" =>
              /\ wpc' = "walk"
              /\ IF ~rayIn.boxHit[curr] \/ IsLeafNode(curr)
                 THEN MissOrLeaf /\ curr' = ParentOf(curr) /\ state' = "fromChild"
                 ELSE tested' = tested /\ curr' \in NearKids(curr) /\ state' = "fromParent"
         /\ state = "fromChild" =>
              /\ tested' = tested
              /\ IF curr = 0 THEN wpc' = "done"
                 ELSE /\ wpc' = "walk"
                      /\ \/ /\ curr \in NearKids(ParentOf(curr))
                            /\ curr' = SiblingOf(curr) /\ state' = "fromSibling"
                         \/ /\ SiblingOf(curr) \in NearKids(ParentOf(curr))
                            /\ curr' = ParentOf(curr) /\ state' = "fromChild"]_vars
\* a finished walk that tested three leaves: it went down, across and up
C14_Witness ==
    /\ wpc = "done"
    /\ Len(tested) = 3
    /\ state = "fromChild"
    /\ curr = 0

\* C15: on a BVH that keeps the data-model invariants the walk never holds an
\* index outside the node array while it runs, never faults, and ends at the
\* root in state fromChild.
C15_WalkEndsAtRoot ==
    DataModelInvariant(bvhArray) =>
        /\ wpc # "fault"
        /\ wpc = "walk" => curr \in DOMAIN bvhArray
        /\ wpc = "done" => (state = "fromChild" /\ curr = 0)

RECURSIVE LeavesUnder(_)
\* the leaves of the subtree of node n
LeavesUnder(n) ==
    IF IsLeafNode(n) THEN {n}
    ELSE LeavesUnder(bvhArray[n].left) \cup LeavesUnder(bvhArray[n].right)
RECURSIVE PathHit(_)
\* the ray hits the box of n and of every ancestor of n below the root
PathHit(n) == IF n = 0 THEN TRUE ELSE rayIn.boxHit[n] /\ PathHit(ParentOf(n))
\* a leaf the ray has to test: its own box and the boxes above it are hit
LeafInReach(n) == IsLeafNode(n) /\ rayIn.boxHit[n] /\ PathHit(n)
TimesTested(n) == Cardinality({i \in 1 .. Len(tested) : tested[i] = n})
\* every test under child a of an internal node comes before every test under child b
TestedBefore(a, b) ==
    \A i, j \in 1 .. Len(tested) :
        (tested[i] \in LeavesUnder(a) /\ tested[j] \in LeavesUnder(b)) => i < j

\* C16: when a walk has ended, every leaf in reach of the ray was tested
\* exactly once, no other leaf was tested, and under every internal node the
\* tests of the near subtree all precede those of the far subtree.
C16_LeavesOnceNearFirst ==
    (wpc \in {"done", "fault"} /\ DataModelInvariant(bvhArray)) =>
        /\ \A n \in DOMAIN bvhArray :
             IsLeafNode(n) => TimesTested(n) = (IF LeafInReach(n) THEN 1 ELSE 0)
        /\ \A n \in DOMAIN bvhArray :
             ~IsLeafNode(n) =>
                \E a \in NearKids(n) : \A b \in ChildrenOf(n) \ {a} : TestedBefore(a, b)

\* the active lanes that hold the path of pixel p
LanesOf(p) == {l \in ActiveLanes : Paths1[l].pixelIndex = p}

\* a path that has ended by a miss or a dead sample has added nothing, and
\* sits in an active lane only with flag 0 and only until the next compaction
DeadPathsGone ==
    \A p \in Lanes :
        ended[p] \in {"miss", "pdf"} =>
            /\ contrib[p] = <<>>
            /\ LanesOf(p) # {} =>
                 /\ (ended[p] = "miss" /\ pc = "compact1") \/ (ended[p] = "pdf" /\ pc = "compact2")
                 /\ \A l \in LanesOf(p) : rayValid[l] = 0

\* C17: a path ended by a miss or by a sample with pdf <= 0 gets flag 0 in
\* the launch that ends it, is in no active lane after the next compaction,
\* and nothing is ever added to the image at its pixel in that iteration.
C17_DeadPathAddsNothing ==
    [][/\ DeadPathsGone'
       /\ \A p \in Lanes :
            (ended'[p] \in {"miss", "pdf"} /\ ended'[p] # ended[p]) =>
                \E l \in LanesOf(p) : rayValid'[l] = 0 /\ Paths1'[l].pixelIndex = p]_vars
\* an iteration about to be presented in which one path ended by a miss and
\* the other by a sample with pdf <= 0
C17_Witness ==
    /\ pc = "present"
    /\ ended[0] = "miss"
    /\ ended[1] = "pdf"
    /\ contrib[0] = <<>> /\ contrib[1] = <<>>

\* the ray hits some primitive of the scene at t > 0
HasPositiveHit == \E q \in DOMAIN primitives : rayIn.primT[q] > 0

\* C18: in both modes the thread of an active lane writes flag 0 exactly when
\* its ray has no hit at t > 0 and flag 1 otherwise, and on a miss it leaves
\* the lane's record as the memset cleared it.
C18_FlagIffPositiveHit ==
    (/\ wpc \in {"done", "fault"}
     /\ DataModelInvariant(bvhArray) /\ LeavesCover(bvhArray) /\ BoxesEnclose(bvhArray, rayIn))
    => /\ compute_intersection(rayIn).valid = (IF HasPositiveHit THEN 1 ELSE 0)
       /\ ~HasPositiveHit => compute_intersection(rayIn).isect = ClearedRecord
       /\ wpc = "done"
       /\ outValid = (IF HasPositiveHit THEN 1 ELSE 0)
       /\ ~HasPositiveHit => outIsect = ClearedRecord

\* C19: every record that reaches the first compaction of a round with flag 1
\* carries the type of the material its material id names, in either mode.
C19_TagMatchesMaterial ==
    pc = "compact1" =>
        \A l \in ActiveLanes :
            rayValid[l] = 1 => Isect1[l].type = SceneMaterials[Isect1[l].materialId].type

\* C20: once pathtraceInit has run, the two path buffers are distinct and the
\* two intersection buffers are distinct; each compaction leaves the current
\* pair as it was, writes the other pair, exchanges the two pairs, and the new
\* current pair then starts with exactly the flag-1 paths of the old one, each
\* with its own record.
BuffersDistinct ==
    serial > 0 => /\ ptr["dev_paths1"] # ptr["dev_paths2"]
                  /\ ptr["dev_intersections1"] # ptr["dev_intersections2"]
                  /\ ptr["dev_paths1"][1] # ptr["dev_paths2"][1]
                  /\ ptr["dev_intersections1"][1] # ptr["dev_intersections2"][1]
FlaggedLanes == {l \in ActiveLanes : rayValid[l] = 1}
CompactionStep ==
    pc \in {"compact1", "compact2"} =>
        /\ bufPaths'[ptr["dev_paths1"][1]] = Paths1
        /\ bufIsect'[ptr["dev_intersections1"][1]] = Isect1
        /\ ptr'["dev_paths1"] = ptr["dev_paths2"]
        /\ ptr'["dev_paths2"] = ptr["dev_paths1"]
        /\ ptr'["dev_intersections1"] = ptr["dev_intersections2"]
        /\ ptr'["dev_intersections2"] = ptr["dev_intersections1"]
        /\ numRays' = Cardinality(FlaggedLanes)
        /\ \E f \in [0 .. (numRays' - 1) -> FlaggedLanes] :
             /\ \A i, j \in DOMAIN f : i # j => f[i] # f[j]
             /\ \A i \in DOMAIN f : Paths1'[i] = Paths1[f[i]] /\ Isect1'[i] = Isect1[f[i]]
        /\ UNCHANGED <<image, rayValid, live>>
C20_PingPongBuffers == []BuffersDistinct /\ [][CompactionStep]_vars
C20_Witness ==
    /\ pc = "scatter"
    /\ ptr["dev_paths1"] = <<"dev_paths2", 1>>
    /\ ptr["dev_intersections1"] = <<"dev_intersections2", 1>>
    /\ numRays >= 1 /\ numRays < pixelcount

\* C21: on a node array that keeps the data-model invariants, a one-node tree
\* included, the walk reads no node at an index outside the array.
C21_NodeReadsInBounds ==
    DataModelInvariant(bvhArray) => badReads = {}

\* C22: from generation to the final gather the paths of the active set have
\* pairwise distinct pixel indices, all of them pixels of the image, and no
\* scatter or finalGather launch adds into one image pixel more than once.
InIteration == pc \in {"intersect", "compact1", "scatter", "compact2", "gather"}
DistinctPixels ==
    InIteration =>
        /\ \A l \in ActiveLanes : Paths1[l].pixelIndex \in Lanes
        /\ \A i, j \in ActiveLanes : i # j => Paths1[i].pixelIndex # Paths1[j].pixelIndex
OneAddPerPixel ==
    pc \in {"scatter", "gather"} =>
        \A p \in Lanes : Len(contrib'[p]) <= Len(contrib[p]) + 1
C22_NoTwoLanesOnePixel == []DistinctPixels /\ [][OneAddPerPixel]_vars
C22_Witness ==
    /\ pc = "compact2"
    /\ numRays = pixelcount
    /\ Paths1[0].pixelIndex # 0
    /\ \A p \in Lanes : Len(contrib[p]) = 1

\* C23: the active count stays within 0 .. pixelcount and never grows during an
\* iteration; compact_rays is entered only with numRays >= 1, so the last flag
\* and the last scan entry it reads exist; and every flag it reads in the lanes
\* below numRays is the verdict the stage just before it gave on the path now
\* in that lane (a miss, for the first compaction of a round; an emitter hit
\* or a sample without density, for the second).
NumRaysInRange == numRays >= 0 /\ numRays <= pixelcount
CompactCallable ==
    pc \in {"compact1", "compact2"} =>
        /\ numRays >= 1
        /\ (numRays - 1) \in DOMAIN rayValid
        /\ (numRays - 1) \in DOMAIN rayIndex
FreshFlags ==
    /\ pc = "compact1" =>
         \A l \in ActiveLanes :
             rayValid[l] = (IF ended[Paths1[l].pixelIndex] = "miss" THEN 0 ELSE 1)
    /\ pc = "compact2" =>
         \A l \in ActiveLanes :
             rayValid[l] = (IF \/ SceneMaterials[Isect1[l].materialId].type = emitting
                               \/ ended[Paths1[l].pixelIndex] = "pdf"
                            THEN 0 ELSE 1)
NumRaysNotGrowing == pc # "idle" => numRays' <= numRays
C23_CompactCalledInBounds ==
    [](NumRaysInRange /\ CompactCallable /\ FreshFlags) /\ [][NumRaysNotGrowing]_vars
C23_Witness ==
    /\ pc = "compact2"
    /\ depth >= 2
    /\ numRays >= 1 /\ numRays < pixelcount
    /\ rayValid[numRays - 1] = 0

====
